---- MODULE Spec2Model ----
(***************************************************************************)
(* A model of the island network of a-sea-of-islands: the graph store, the *)
(* budget-constrained depth-first search (findMaxExperiences), the         *)
(* priority scorer (calculatePriority), the breadth-first knowledge        *)
(* sharing journey (shareKnowledge) and the canoe-gated resource           *)
(* distribution (distributeFrom) of class IslandNetwork.                   *)
(***************************************************************************)
EXTENDS Integers, Sequences, FiniteSets, TLC

\* ------------------------------------------------------------------ bounds

\* The islands of the enumerated networks. The empty string is an island
\* name like any other for the graph store; shareKnowledge tests the
\* dequeued name for truthiness, and "" is the one falsy string.
Nodes == {"", "A", "B"}

\* At most this many edges in an enumerated network, all islands together.
MaxEdges == 3

\* The canoes handed to the constructor range over 0..MaxCanoes.
MaxCanoes == 2

\* The clock shows the times 1..MaxClock.
MaxClock == 3

\* At most this many edges in a network shareKnowledge is checked on.
MaxRoutes == 3

\* The clock of the journey round the two-island cycle shows 1..CycleClock.
CycleClock == 8

\* (travelTime, resourceOrExperienceTime) of the enumerated edges: an edge
\* costs 15 or 50, so that two edges can reach the limit of 100 exactly.
Times == {<<10, 5>>, <<30, 20>>}

\* The limit of the total time of a journey: the literal of dfs and of
\* distributeResource.
Threshold == 100

\* ------------------------------------------------------------ graph store

\* type Neighbor
Neighbor(n, t, r) == [node |-> n, travelTime |-> t, resourceOrExperienceTime |-> r]

\* The Map with no key.
EmptyMap == [n \in {} |-> 0]

\* Mutation: only the first edge of a list is followed.
neighborsOfFirst(g, island) ==
    IF island \in DOMAIN g /\ g[island] # <<>> THEN <<g[island][1]>> ELSE <<>>

\* this.graph.get(island) || []
neighborsOf(g, island) == IF island \in DOMAIN g THEN g[island] ELSE <<>>

\* map.set(key, value)
MapSet(m, key, value) == [k \in DOMAIN m \cup {key} |-> IF k = key THEN value ELSE m[k]]

\* The islands a network names: its keys and the targets of its edges.
IslandsOf(g) ==
    DOMAIN g \cup UNION {{g[n][i].node : i \in 1..Len(g[n])} : n \in DOMAIN g}

\* --------------------------------------------------- the networks checked

\* The edges an enumerated network is made of.
Edges == {Neighbor(n, t[1], t[2]) : n \in Nodes, t \in Times}

\* (travelTime, resourceOrExperienceTime) of the edges the limit of 100 never
\* stops: an edge that lowers the running time, and one that leaves it.
FreeTimes == {<<-10, -5>>, <<0, 0>>}

\* The edges of the networks the limit never stops a path in.
FreeEdges == {Neighbor(n, t[1], t[2]) : n \in Nodes, t \in FreeTimes}

\* A cycle A -> B -> A whose edges cost nothing, with a second way from A to
\* B, over C, that lowers the running time.
RoundaboutNetwork ==
    [n \in {"A", "B", "C"} |->
        CASE n = "A" -> <<Neighbor("B", 0, 0), Neighbor("C", -10, -5)>>
          [] n = "B" -> <<Neighbor("A", 0, 0)>>
          [] OTHER -> <<Neighbor("B", 0, 0)>>]

RECURSIVE NetworksOver(_, _, _)
\* The networks whose keys are among `islands` and which hold at most `budget`
\* of the given edges: an island is absent, or a key with a list of edges
\* (the empty list too).
NetworksOver(islands, edges, budget) ==
    IF islands = {} THEN {EmptyMap}
    ELSE
        LET n == CHOOSE x \in islands : TRUE
            rest == islands \ {n}
        IN  NetworksOver(rest, edges, budget) \cup
            UNION {{MapSet(g, n, l) : g \in NetworksOver(rest, edges, budget - k),
                                      l \in [1..k -> edges]} : k \in 0..budget}

\* The edges of the networks shareKnowledge is checked on: the times of an
\* edge play no part in it.
RouteEdges == {Neighbor(n, 10, 5) : n \in Nodes}

\* The two-island cycle A <-> B.
CycleNetwork ==
    [n \in {"A", "B"} |-> IF n = "A" THEN <<Neighbor("B", 10, 5)>>
                                     ELSE <<Neighbor("A", 10, 5)>>]

\* The visit intervals shareKnowledge is called with; the last is longer
\* than the clock is followed.
Intervals == {0, 1, 10}

\* The populations islands are added with.
Populations == {0, 500}

\* The islands and the neighbor lists of the calls made in any order.
MainIslands == {"A", "B"}
MainLists ==
    {<<>>} \cup {<<Neighbor(n, 10, 5)>> : n \in MainIslands}
           \cup {<<Neighbor("A", 10, 5), Neighbor("B", 30, 20)>>}

\* The network of the specification's scenarios: A->B (15), A->C (23),
\* B->D (32).
ScenarioNetwork ==
    [n \in {"A", "B"} |->
        IF n = "A" THEN <<Neighbor("B", 10, 5), Neighbor("C", 15, 8)>>
                   ELSE <<Neighbor("D", 20, 12)>>]

\* The network the source's own test builds.
TestNetwork ==
    [n \in {"experience1", "experience2", "experience3", "experience4"} |->
        CASE n = "experience1" -> <<Neighbor("experience2", 10, 5),
                                    Neighbor("experience3", 15, 8)>>
          [] n = "experience2" -> <<Neighbor("experience4", 20, 12)>>
          [] n = "experience3" -> <<Neighbor("experience5", 10, 7)>>
          [] OTHER -> <<>>]

\* The canoes of the source's test: new IslandNetwork(3).
TestCanoes == 3

\* The islands a call on network g is started from.
StartsOf(g) == Nodes \cup IslandsOf(g)

\* ------------------------------------------------- findMaxExperiences, dfs

\* Mutation: the count of the path at hand instead of the greater count.
MathMaxLast(a, b) == b

\* Math.max(a, b)
MathMax(a, b) == IF a >= b THEN a ELSE b

\* Mutation: the target stays in visited after its edge.
VisitedDeleteForgotten(visited, nextNode) == visited

\* Mutation: the comparison the wrong way round.
WithinLimitFlipped(newTime, limit) == newTime > limit

\* Mutation: a time equal to the limit is let through.
WithinLimitInclusive(newTime, limit) == newTime <= limit

\* newTime < 100, with the literal as the parameter `limit`.
WithinLimit(newTime, limit) == newTime < limit

\* Mutation: an island of the path is entered again.
NotVisitedEver(visited, nextNode) == TRUE

\* !visited.has(nextNode)
NotVisited(visited, nextNode) == nextNode \notin visited

\* visited.delete(nextNode)
VisitedDelete(visited, nextNode) == visited \ {nextNode}

\* An entry of the instrumentation's log: what a call, or a neighbor it turned
\* down, saw.
Event(ev, node, totalTime, seen, stack, canoes) ==
    [ev |-> ev, node |-> node, totalTime |-> totalTime, seen |-> seen,
     stack |-> stack, canoes |-> canoes]

Front(seq) == SubSeq(seq, 1, Len(seq) - 1)

RECURSIVE dfs(_, _, _, _, _, _, _)
RECURSIVE dfsFor(_, _, _, _, _, _, _, _)

\* dfs(current, visited, totalTime, maxExperiencesCount, experienceCount) on
\* the network g. `s` is [visited, stack, log]: the Set the calls share, and
\* the instrumentation (the calls that are open, and the log). The result is
\* [ret, s]: the number returned and the state the call leaves.
dfs(g, limit, current, s, totalTime, maxExperiencesCount, experienceCount) ==
    LET currentMaxExperiences == MathMax(maxExperiencesCount, experienceCount)
        stack == Append(s.stack, current)
        entered == [s EXCEPT !.stack = stack,
                             !.log = Append(@, Event("enter", current, totalTime,
                                                     s.visited, stack, 0))]
    IN  dfsFor(g, limit, current, entered, totalTime, currentMaxExperiences,
               experienceCount, 1)

\* The for loop of dfs from its i-th neighbor on.
dfsFor(g, limit, current, s, totalTime, currentMaxExperiences, experienceCount, i) ==
    LET neighbors == neighborsOf(g, current) IN
    IF i > Len(neighbors)
    THEN [ret |-> currentMaxExperiences,
          s |-> [s EXCEPT !.stack = Front(@),
                          !.log = Append(@, Event("return", current, totalTime,
                                                  s.visited, s.stack, 0))]]
    ELSE
        LET nextNode == neighbors[i].node
            travelTime == neighbors[i].travelTime
            resourceOrExperienceTime == neighbors[i].resourceOrExperienceTime
        IN
        IF NotVisited(s.visited, nextNode)
        THEN
            LET added == [s EXCEPT !.visited = @ \cup {nextNode}]
                newTime == totalTime + travelTime + resourceOrExperienceTime
                newExperienceCount == experienceCount + 1
                r == IF WithinLimit(newTime, limit)
                     THEN dfs(g, limit, nextNode, added, newTime,
                              currentMaxExperiences, newExperienceCount)
                     ELSE [ret |-> currentMaxExperiences,
                           s |-> [added EXCEPT !.log =
                                     Append(@, Event("over", nextNode, newTime,
                                                     added.visited, added.stack, 0))]]
                deleted == [r.s EXCEPT !.visited = VisitedDelete(@, nextNode)]
            IN  dfsFor(g, limit, current, deleted, totalTime, r.ret,
                       experienceCount, i + 1)
        ELSE dfsFor(g, limit, current, s, totalTime, currentMaxExperiences,
                    experienceCount, i + 1)

\* Mutation: the visited set starts empty, without the start island.
findMaxExperiencesUnseenStart(g, limit, start) ==
    dfs(g, limit, start, [visited |-> {}, stack |-> <<>>, log |-> <<>>], 0, 0, 1)

\* Mutation: the start island is not counted.
findMaxExperiencesFromZero(g, limit, start) ==
    dfs(g, limit, start, [visited |-> {start}, stack |-> <<>>, log |-> <<>>], 0, 0, 0)

\* findMaxExperiences(start), with the limit of dfs as a parameter.
findMaxExperiencesWithin(g, limit, start) ==
    dfs(g, limit, start, [visited |-> {start}, stack |-> <<>>, log |-> <<>>], 0, 0, 1)

\* findMaxExperiences(start)
findMaxExperiences(g, start) == findMaxExperiencesWithin(g, Threshold, start)

\* ------------------------------------- distributeFrom, distributeResource

\* Mutation: the pool is not asked.
CanoeFreeAlways(canoesAvailable) == TRUE

\* Mutation: a pool of no canoes still lends one.
CanoeFreeAtZero(canoesAvailable) == canoesAvailable >= 0

\* this.canoesAvailable > 0
CanoeFree(canoesAvailable) == canoesAvailable > 0

\* Mutation: the distributed set is never consulted.
AlreadyPlantedNever(resourcesDistributed, current) == FALSE

\* this.resourcesDistributed.has(current)
AlreadyPlanted(resourcesDistributed, current) == current \in resourcesDistributed

\* Mutation: the canoe is not taken from the pool.
CanoeTakenNot(canoesAvailable) == canoesAvailable

\* this.canoesAvailable-- before the call
CanoeTaken(canoesAvailable) == canoesAvailable - 1

\* Mutation: the canoe is not given back.
CanoeBackForgotten(canoesAvailable) == canoesAvailable

\* this.canoesAvailable++ of the call that took a canoe
CanoeBack(canoesAvailable) == canoesAvailable + 1

RECURSIVE distributeResource(_, _, _, _, _, _)
RECURSIVE distributeFor(_, _, _, _, _, _, _)

\* distributeResource(current, totalTime, resourceCount) on the network g. `s`
\* is [resourcesDistributed, canoesAvailable, stack, log]: the two fields the
\* calls share, and the instrumentation. The result is [ret, s].
distributeResource(g, limit, current, totalTime, resourceCount, s) ==
    LET stack == Append(s.stack, current) IN
    IF AlreadyPlanted(s.resourcesDistributed, current)
    THEN [ret |-> resourceCount,
          s |-> [s EXCEPT !.log = Append(@, Event("again", current, totalTime,
                                                  s.resourcesDistributed, stack,
                                                  s.canoesAvailable))]]
    ELSE
        LET planted == [s EXCEPT !.resourcesDistributed = @ \cup {current},
                                 !.stack = stack,
                                 !.log = Append(@, Event("plant", current, totalTime,
                                                         s.resourcesDistributed, stack,
                                                         s.canoesAvailable))]
        IN  distributeFor(g, limit, current, totalTime, resourceCount + 1, planted, 1)

\* The for loop of distributeResource from its i-th neighbor on.
distributeFor(g, limit, current, totalTime, resourceCount, s, i) ==
    LET neighbors == neighborsOf(g, current) IN
    IF i > Len(neighbors)
    THEN [ret |-> resourceCount,
          s |-> [s EXCEPT !.stack = Front(@),
                          !.log = Append(@, Event("return", current, totalTime,
                                                  s.resourcesDistributed, s.stack,
                                                  s.canoesAvailable))]]
    ELSE
        LET nextIsland == neighbors[i].node
            travelTime == neighbors[i].travelTime
            resourceOrExperienceTime == neighbors[i].resourceOrExperienceTime
        IN
        IF /\ CanoeFree(s.canoesAvailable)
           /\ WithinLimit(totalTime + travelTime + resourceOrExperienceTime, limit)
        THEN
            LET newTotalTime == totalTime + travelTime + resourceOrExperienceTime
                taken == [s EXCEPT !.canoesAvailable = CanoeTaken(@)]
                r == distributeResource(g, limit, nextIsland, newTotalTime,
                                        resourceCount, taken)
                back == [r.s EXCEPT !.canoesAvailable = CanoeBack(@)]
            IN  distributeFor(g, limit, current, totalTime, r.ret, back, i + 1)
        ELSE
            LET skipped == [s EXCEPT !.log =
                               Append(@, Event("skip", nextIsland,
                                               totalTime + travelTime + resourceOrExperienceTime,
                                               s.resourcesDistributed, s.stack,
                                               s.canoesAvailable))]
            IN  distributeFor(g, limit, current, totalTime, resourceCount, skipped, i + 1)

\* Mutation: the distributed set of the call before is kept.
ClearedNever(resourcesDistributed) == resourcesDistributed

\* this.resourcesDistributed.clear()
Cleared(resourcesDistributed) == {}

\* distributeFrom(start) on the network g with the fields as they are, and
\* with the limit of distributeResource as a parameter.
distributeFromWithin(g, limit, resourcesDistributed, canoesAvailable, start) ==
    distributeResource(g, limit, start, 0, 0,
                       [resourcesDistributed |-> Cleared(resourcesDistributed),
                        canoesAvailable |-> canoesAvailable,
                        stack |-> <<>>, log |-> <<>>])

\* distributeFrom(start)
distributeFrom(g, resourcesDistributed, canoesAvailable, start) ==
    distributeFromWithin(g, Threshold, resourcesDistributed, canoesAvailable, start)

\* ------------------------------------------- calculatePriority, the clock

\* -Infinity, the lastVisit of an island added with a population: a number
\* below every time the clock shows.
NegInfinity == -1

\* this.lastVisit.get(island) || 0: no entry, and an entry of 0, give 0;
\* -Infinity is truthy and stays.
lastVisitOrZero(lv, island) == IF island \in DOMAIN lv THEN lv[island] ELSE 0

\* this.populations.get(island) || 0
populationOrZero(pops, island) == IF island \in DOMAIN pops THEN pops[island] ELSE 0

\* (Date.now() - last) > visitInterval, where Date.now() shows t: the
\* difference from -Infinity is Infinity, above every interval.
ElapsedExceeds(t, last, visitInterval) ==
    IF last = NegInfinity THEN TRUE ELSE t - last > visitInterval

\* calculatePriority(island) when Date.now() shows t: population times
\* recency in IEEE arithmetic, where the recency of -Infinity is Infinity,
\* and 0 * Infinity is NaN.
calculatePriority(pops, lv, island, t) ==
    LET population == populationOrZero(pops, island)
        last == lastVisitOrZero(lv, island)
    IN  IF last = NegInfinity
        THEN IF population = 0 THEN [kind |-> "NaN", v |-> 0]
             ELSE [kind |-> "Infinity", v |-> 0]
        ELSE [kind |-> "number", v |-> population * (t - last)]

\* ------------------------------------------------------------------ state

VARIABLES
    graph,                \* Map<string, Neighbor[]>
    populations,          \* Map<string, number>
    lastVisit,            \* Map<string, number>
    canoesAvailable,      \* number
    resourcesDistributed, \* Set<string>
    now,                  \* what Date.now() showed when it was last read
    horizon,              \* the clock is followed up to this time
    pc,                   \* where shareKnowledge stands: "idle", "while", "for"
    visited,              \* shareKnowledge's visited
    queue,                \* shareKnowledge's queue
    currentIsland,        \* shareKnowledge's currentIsland
    pos,                  \* the place in neighbors of shareKnowledge's for loop
    journey,              \* the islands shareKnowledge has taken off the queue, in order
    asked,                \* the islands shareKnowledge has put on the queue, in order
    ticking,              \* "unread", or whether each reading of the clock in this
                          \* call was later than the one before: "yes", "no"
    ret                   \* the call last made: its arguments, and its result

fields == <<graph, populations, lastVisit, canoesAvailable, resourcesDistributed>>
locals == <<pc, visited, queue, currentIsland, pos, journey, asked, ticking>>
vars == <<fields, now, horizon, locals, ret>>

\* No call has been made yet.
NoCall == [op |-> "none"]

\* shareKnowledge is not running: its locals do not exist.
NoLocals ==
    /\ pc = "idle"
    /\ visited = {}
    /\ queue = <<>>
    /\ currentIsland = ""
    /\ pos = 0
    /\ journey = <<>>
    /\ asked = <<>>
    /\ ticking = "unread"

\* The times Date.now() may show at its next reading: not before the last.
ClockReadings == now..horizon

\* addIslandOrExperience(island, neighbors, population?)
AddIslandOrExperience(island, neighbors, hasPopulation, population) ==
    /\ pc = "idle"
    /\ graph' = MapSet(graph, island, neighbors)
    /\ IF hasPopulation
       THEN /\ populations' = MapSet(populations, island, population)
            /\ lastVisit' = MapSet(lastVisit, island, NegInfinity)
       ELSE UNCHANGED <<populations, lastVisit>>
    /\ ret' = [op |-> "addIslandOrExperience", island |-> island]
    /\ UNCHANGED <<canoesAvailable, resourcesDistributed, now, horizon, locals>>

\* findMaxExperiences(start): the fields are left as they are. `ret` keeps
\* what the call returned, what the instrumentation saw, and the fields as
\* the call found them.
FindMaxExperiences(start) ==
    /\ pc = "idle"
    /\ LET r == findMaxExperiences(graph, start) IN
       ret' = [op |-> "findMaxExperiences", start |-> start, value |-> r.ret,
               visited |-> r.s.visited, log |-> r.s.log, entry |-> fields]
    /\ UNCHANGED <<fields, now, horizon, locals>>

\* calculatePriority(island): one reading of the clock.
CalculatePriority(island) ==
    /\ pc = "idle"
    /\ \E t \in ClockReadings :
          /\ now' = t
          /\ ret' = [op |-> "calculatePriority", island |-> island,
                     value |-> calculatePriority(populations, lastVisit, island, t)]
    /\ UNCHANGED <<fields, horizon, locals>>

\* distributeFrom(start): the distributed set and the canoes are what the
\* recursion leaves.
DistributeFrom(start) ==
    /\ pc = "idle"
    /\ LET r == distributeFrom(graph, resourcesDistributed, canoesAvailable, start) IN
       /\ resourcesDistributed' = r.s.resourcesDistributed
       /\ canoesAvailable' = r.s.canoesAvailable
       /\ ret' = [op |-> "distributeFrom", start |-> start, value |-> r.ret,
                  canoes |-> canoesAvailable, log |-> r.s.log, entry |-> fields]
    /\ UNCHANGED <<graph, populations, lastVisit, now, horizon, locals>>

\* ------------------------------------------------------------ shareKnowledge

\* !currentIsland: the empty string is falsy.
Falsy(island) == island = ""

\* Mutation: an island is queued only when it is not in visited.
ShouldQueueUnseen(seen, lv, nextNode, t, visitInterval) == nextNode \notin seen

\* !visited.has(nextNode) || (Date.now() - (this.lastVisit.get(nextNode) || 0))
\* > visitInterval, where Date.now() shows t.
ShouldQueue(seen, lv, nextNode, t, visitInterval) ==
    \/ nextNode \notin seen
    \/ ElapsedExceeds(t, lastVisitOrZero(lv, nextNode), visitInterval)

\* The `||` reads the clock only when its left side is false.
ReadsClock(seen, nextNode) == nextNode \in seen

\* What a reading of t makes of `ticking`.
Ticked(t) ==
    CASE ticking = "unread" -> "yes"
      [] ticking = "yes" -> IF t > now THEN "yes" ELSE "no"
      [] OTHER -> "no"

\* shareKnowledge(start, visitInterval) is called: visited and queue hold start.
ShareKnowledge(start, visitInterval) ==
    /\ pc = "idle"
    /\ pc' = "while"
    /\ visited' = {start}
    /\ queue' = <<start>>
    /\ asked' = <<start>>
    /\ ret' = [op |-> "shareKnowledge", start |-> start,
               visitInterval |-> visitInterval, returned |-> FALSE]
    /\ UNCHANGED <<fields, now, horizon, currentIsland, pos, journey, ticking>>

\* The while test holds: queue.shift(); a falsy island is passed over, any
\* other has its lastVisit set to the clock's reading, and the for loop
\* starts on its neighbors.
Dequeue ==
    /\ pc = "while"
    /\ queue # <<>>
    /\ currentIsland' = Head(queue)
    /\ queue' = Tail(queue)
    /\ journey' = Append(journey, Head(queue))
    /\ IF Falsy(Head(queue))
       THEN UNCHANGED <<lastVisit, now, ticking, pc, pos>>
       ELSE \E t \in ClockReadings :
               /\ now' = t
               /\ ticking' = Ticked(t)
               /\ lastVisit' = MapSet(lastVisit, Head(queue), t)
               /\ IF neighborsOf(graph, Head(queue)) = <<>>
                  THEN UNCHANGED <<pc, pos>>
                  ELSE pc' = "for" /\ pos' = 1
    /\ UNCHANGED <<graph, populations, canoesAvailable, resourcesDistributed,
                   horizon, visited, asked, ret>>

\* One turn of the for loop: the neighbor at pos is queued or not; after the
\* last neighbor the while loop goes on.
ForNeighbor ==
    /\ pc = "for"
    /\ LET neighbors == neighborsOf(graph, currentIsland)
           nextNode == neighbors[pos].node
       IN  /\ \E t \in (IF ReadsClock(visited, nextNode) THEN ClockReadings ELSE {now}) :
                 /\ now' = t
                 /\ ticking' = IF ReadsClock(visited, nextNode) THEN Ticked(t) ELSE ticking
                 /\ IF ShouldQueue(visited, lastVisit, nextNode, t, ret.visitInterval)
                    THEN /\ visited' = visited \cup {nextNode}
                         /\ queue' = Append(queue, nextNode)
                         /\ asked' = Append(asked, nextNode)
                    ELSE UNCHANGED <<visited, queue, asked>>
           /\ IF pos < Len(neighbors)
              THEN pos' = pos + 1 /\ pc' = "for"
              ELSE pos' = 0 /\ pc' = "while"
    /\ UNCHANGED <<fields, horizon, currentIsland, journey, ret>>

\* The while test fails: shareKnowledge returns, and its locals are gone.
Return ==
    /\ pc = "while"
    /\ queue = <<>>
    /\ pc' = "idle"
    /\ visited' = {}
    /\ currentIsland' = ""
    /\ journey' = <<>>
    /\ asked' = <<>>
    /\ ticking' = "unread"
    /\ ret' = [ret EXCEPT !.returned = TRUE]
    /\ UNCHANGED <<fields, now, horizon, queue, pos>>

\* ---------------------------------------------------------- specifications

\* One findMaxExperiences call on each network of the family, on the
\* scenario's and on the test's, in an IslandNetwork made with no canoes.
InitFind ==
    /\ graph \in NetworksOver(Nodes, Edges, MaxEdges) \cup {ScenarioNetwork, TestNetwork}
    /\ populations = EmptyMap
    /\ lastVisit = EmptyMap
    /\ canoesAvailable = 0
    /\ resourcesDistributed = {}
    /\ now = 1
    /\ horizon = MaxClock
    /\ NoLocals
    /\ ret = NoCall

NextFind == ret = NoCall /\ \E start \in StartsOf(graph) : FindMaxExperiences(start)

SpecFind == InitFind /\ [][NextFind]_vars

\* One findMaxExperiences call on each network whose edges cost nothing or
\* less than nothing, so that only the visited set ends a path, and on the
\* roundabout.
InitCosts ==
    /\ graph \in NetworksOver(Nodes, FreeEdges, MaxEdges) \cup {RoundaboutNetwork}
    /\ populations = EmptyMap
    /\ lastVisit = EmptyMap
    /\ canoesAvailable = 0
    /\ resourcesDistributed = {}
    /\ now = 1
    /\ horizon = MaxClock
    /\ NoLocals
    /\ ret = NoCall

SpecCosts == InitCosts /\ [][NextFind]_vars

\* One call, of findMaxExperiences or of distributeFrom, on each network of the
\* family with each number of canoes, and on the scenario's and the test's
\* networks with the test's canoes.
InitTraverse ==
    /\ \/ graph \in NetworksOver(Nodes, Edges, MaxEdges) /\ canoesAvailable \in 0..MaxCanoes
       \/ graph \in {ScenarioNetwork, TestNetwork} /\ canoesAvailable = TestCanoes
    /\ populations = EmptyMap
    /\ lastVisit = EmptyMap
    /\ resourcesDistributed = {}
    /\ now = 1
    /\ horizon = MaxClock
    /\ NoLocals
    /\ ret = NoCall

NextTraverse ==
    /\ ret = NoCall
    /\ \E start \in StartsOf(graph) :
          FindMaxExperiences(start) \/ DistributeFrom(start)

SpecTraverse == InitTraverse /\ [][NextTraverse]_vars

\* One distributeFrom call on each of the same networks, with the same
\* numbers of canoes.
NextDistribute ==
    /\ ret = NoCall
    /\ \E start \in StartsOf(graph) : DistributeFrom(start)

SpecDistribute == InitTraverse /\ [][NextDistribute]_vars

\* One shareKnowledge call on each network of up to MaxRoutes edges, where either every key
\* was added with a population (lastVisit -Infinity) or none was.
InitJourney ==
    /\ graph \in NetworksOver(Nodes, RouteEdges, MaxRoutes)
    /\ \E withPopulation \in BOOLEAN :
          IF withPopulation
          THEN /\ populations = [n \in DOMAIN graph |-> 500]
               /\ lastVisit = [n \in DOMAIN graph |-> NegInfinity]
          ELSE populations = EmptyMap /\ lastVisit = EmptyMap
    /\ canoesAvailable = 0
    /\ resourcesDistributed = {}
    /\ now = 1
    /\ horizon = MaxClock
    /\ NoLocals
    /\ ret = NoCall

NextJourney ==
    \/ /\ ret = NoCall
       /\ \E start \in Nodes, visitInterval \in Intervals :
             ShareKnowledge(start, visitInterval)
    \/ Dequeue
    \/ ForNeighbor
    \/ Return

SpecJourney == InitJourney /\ [][NextJourney]_vars

\* One shareKnowledge call on each network of SpecJourney while the clock
\* stands still: every reading of Date.now() gives the same time.
InitStill ==
    /\ graph \in NetworksOver(Nodes, RouteEdges, MaxRoutes)
    /\ \E withPopulation \in BOOLEAN :
          IF withPopulation
          THEN /\ populations = [n \in DOMAIN graph |-> 500]
               /\ lastVisit = [n \in DOMAIN graph |-> NegInfinity]
          ELSE populations = EmptyMap /\ lastVisit = EmptyMap
    /\ canoesAvailable = 0
    /\ resourcesDistributed = {}
    /\ now = 1
    /\ horizon = now
    /\ NoLocals
    /\ ret = NoCall

SpecStill == InitStill /\ [][NextJourney]_vars

\* shareKnowledge("A", 0) on the two-island cycle, with or without populations.
InitCycle ==
    /\ graph = CycleNetwork
    /\ \E withPopulation \in BOOLEAN :
          IF withPopulation
          THEN /\ populations = [n \in DOMAIN graph |-> 500]
               /\ lastVisit = [n \in DOMAIN graph |-> NegInfinity]
          ELSE populations = EmptyMap /\ lastVisit = EmptyMap
    /\ canoesAvailable = 0
    /\ resourcesDistributed = {}
    /\ now = 1
    /\ horizon = CycleClock
    /\ NoLocals
    /\ ret = NoCall

NextCycle ==
    \/ ret = NoCall /\ ShareKnowledge("A", 0)
    \/ Dequeue
    \/ ForNeighbor
    \/ Return

SpecCycle == InitCycle /\ [][NextCycle]_vars

\* new IslandNetwork(3), and then the public methods in any order.
Init ==
    /\ graph = EmptyMap
    /\ populations = EmptyMap
    /\ lastVisit = EmptyMap
    /\ canoesAvailable = TestCanoes
    /\ resourcesDistributed = {}
    /\ now = 1
    /\ horizon = MaxClock
    /\ NoLocals
    /\ ret = NoCall

Next ==
    \/ \E island \in MainIslands, neighbors \in MainLists, hasPopulation \in BOOLEAN :
          \E population \in (IF hasPopulation THEN Populations ELSE {0}) :
             AddIslandOrExperience(island, neighbors, hasPopulation, population)
    \/ \E start \in MainIslands : FindMaxExperiences(start)
    \/ \E island \in MainIslands : CalculatePriority(island)
    \/ \E start \in MainIslands, visitInterval \in Intervals :
          ShareKnowledge(start, visitInterval)
    \/ Dequeue
    \/ ForNeighbor
    \/ Return
    \/ \E start \in MainIslands : DistributeFrom(start)

Spec == Init /\ [][Next]_vars

\* ------------------------------------------------- what the claims refer to

\* The time of one edge.
EdgeTime(nb) == nb.travelTime + nb.resourceOrExperienceTime

RECURSIVE TimeAfter(_, _, _, _)
\* The running time after the first j edges of the journey that visits the
\* islands p in turn, leaving p[i] by the e[i]-th edge of its list.
TimeAfter(g, p, e, j) ==
    IF j = 0 THEN 0
    ELSE TimeAfter(g, p, e, j - 1) + EdgeTime(neighborsOf(g, p[j])[e[j]])

\* The longest edge list of g.
Width(g) ==
    LET lens == {Len(g[n]) : n \in DOMAIN g} IN
    IF lens = {} THEN 0 ELSE CHOOSE w \in lens : \A v \in lens : v <= w

\* p, e is a simple path of g from start.
IsSimplePath(g, start, p, e) ==
    /\ p[1] = start
    /\ \A i, j \in 1..Len(p) : i # j => p[i] # p[j]
    /\ \A i \in 1..Len(e) :
          /\ e[i] <= Len(neighborsOf(g, p[i]))
          /\ neighborsOf(g, p[i])[e[i]].node = p[i + 1]

\* The simple paths of g from start that visit k islands.
SimplePaths(g, start, k) ==
    {pe \in [1..k -> IslandsOf(g) \cup {start}] \X [1..(k - 1) -> 1..Width(g)] :
        IsSimplePath(g, start, pe[1], pe[2])}

\* The running time of the path stays under the limit after every edge.
StaysUnder(g, limit, pe) ==
    \A j \in 1..Len(pe[2]) : TimeAfter(g, pe[1], pe[2], j) < limit

\* The most islands on a simple path from start whose running time stays
\* strictly under the limit.
MostIslands(g, limit, start) ==
    LET n == Cardinality(IslandsOf(g) \cup {start})
        ks == {k \in 1..n : \E pe \in SimplePaths(g, start, k) : StaysUnder(g, limit, pe)}
    IN  CHOOSE k \in ks : \A j \in ks : j <= k

RECURSIVE ReachableFrom(_, _)
\* The islands reachable from the islands `seen` along the edges of g.
ReachableFrom(g, seen) ==
    LET more == seen \cup UNION {{neighborsOf(g, n)[i].node :
                                     i \in 1..Len(neighborsOf(g, n))} : n \in seen}
    IN  IF more = seen THEN seen ELSE ReachableFrom(g, more)

Found == ret.op = "findMaxExperiences"
Distributed == ret.op = "distributeFrom"

\* The log's entries of the given kinds.
Logged(kinds) == {i \in 1..Len(ret.log) : ret.log[i].ev \in kinds}

\* ------------------------------------------------------------------ claims

\* C1: findMaxExperiences(start) returns the greatest number of islands on a
\* simple path from start whose running time stays strictly under 100 after
\* every edge; on A->B (15), A->C (23), B->D (32) from A it returns 3.
C1_MaxOverSimplePaths ==
    Found =>
        /\ ret.value = MostIslands(graph, Threshold, ret.start)
        /\ (graph = ScenarioNetwork /\ ret.start = "A") => ret.value = 3
        /\ (graph = TestNetwork /\ ret.start = "experience1") => ret.value = 3

\* C1's case: the scenario's network searched from A, where the longest
\* path A, B, D beats A, C.
C1_Witness ==
    /\ Found
    /\ graph = ScenarioNetwork
    /\ ret.start = "A"
    /\ ret.value = 3

\* The limits two searches are compared under: the least limits that admit
\* the times a path of up to three enumerated edges can take, and the limit
\* of the source.
Limits == {15, 16, 31, 46, 51, 66, 81, 100, 101, 116}

\* C2: with the limit as a parameter, a larger limit never gives a smaller
\* result.
C2_MonotoneInLimit ==
    Found =>
        LET counts == {<<t, findMaxExperiencesWithin(graph, t, ret.start).ret>> :
                          t \in Limits}
        IN  /\ <<Threshold, ret.value>> \in counts
            /\ \A a, b \in counts : a[1] <= b[1] => a[2] <= b[2]

\* C2's case: a search whose result does grow with the limit.
C2_Witness ==
    /\ Found
    /\ findMaxExperiencesWithin(graph, 50, ret.start).ret < ret.value
    /\ ret.value < findMaxExperiencesWithin(graph, 101, ret.start).ret

\* C3: the result is at least 1, and exactly 1 from an island with no edges,
\* an island that was never added included.
C3_AtLeastOne ==
    Found =>
        /\ ret.value >= 1
        /\ neighborsOf(graph, ret.start) = <<>> => ret.value = 1

\* C3's case: a search from an island that is no key of the network, in a
\* network that has edges.
C3_Witness ==
    /\ Found
    /\ ret.start \notin DOMAIN graph
    /\ IslandsOf(graph) # {}
    /\ ret.value = 1

\* C4: both recursions descend an edge only when the running time with that
\* edge is strictly under 100: no call is entered with a time of 100 or
\* more, and an edge that brings the time to 100 exactly is turned down.
C4_StrictLimit ==
    /\ Found =>
          /\ \A i \in Logged({"enter"}) : ret.log[i].totalTime < Threshold
          /\ \A i \in Logged({"over"}) : ret.log[i].totalTime >= Threshold
    /\ Distributed =>
          /\ \A i \in Logged({"plant", "again"}) : ret.log[i].totalTime < Threshold
          /\ \A i \in Logged({"skip"}) :
                ret.log[i].canoes = 0 \/ ret.log[i].totalTime >= Threshold

\* C4's case: a distribution with a canoe free turned an edge down whose
\* time came to 100 exactly, and so planted nothing on that island.
C4_Witness ==
    /\ Distributed
    /\ \E i \in Logged({"skip"}) :
          /\ ret.log[i].totalTime = Threshold
          /\ ret.log[i].canoes > 0
          /\ ret.log[i].node \notin resourcesDistributed

\* C5: distributeFrom counts every island once: it returns the number of
\* islands in the distributed set, no island is planted twice, and a call
\* on an island already planted returns its count as it got it and leaves
\* the fields alone.
C5_CountedOnce ==
    Distributed =>
        /\ ret.value = Cardinality(resourcesDistributed)
        /\ \A i, j \in Logged({"plant"}) : ret.log[i].node = ret.log[j].node => i = j
        /\ \A n \in resourcesDistributed :
              LET s == [resourcesDistributed |-> resourcesDistributed,
                        canoesAvailable |-> canoesAvailable,
                        stack |-> <<>>, log |-> <<>>]
                  r == distributeResource(graph, Threshold, n, 0, ret.value, s)
              IN  /\ r.ret = ret.value
                  /\ r.s.resourcesDistributed = resourcesDistributed
                  /\ r.s.canoesAvailable = canoesAvailable

\* C5's case: a distribution that came to an island it had planted already,
\* by another path.
C5_Witness ==
    /\ Distributed
    /\ ret.value >= 3
    /\ \E i \in Logged({"again"}) : ret.log[i].node # ret.start

\* C6: with no canoe, distributeFrom plants on the start island and nowhere
\* else, and returns 1.
C6_NoCanoes ==
    (Distributed /\ ret.canoes = 0) =>
        /\ ret.value = 1
        /\ resourcesDistributed = {ret.start}
        /\ ret.log[1].ev = "plant" /\ ret.log[1].node = ret.start
        /\ Logged({"plant", "again"}) = {1}

\* C6's case: no canoe, and a start island with edges within the limit.
C6_Witness ==
    /\ Distributed
    /\ ret.canoes = 0
    /\ \E i \in Logged({"skip"}) : ret.log[i].totalTime < Threshold
    /\ ret.value = 1

\* Every simple path of g from start takes less than the limit.
AllPathsUnder(g, limit, start) ==
    \A k \in 1..Cardinality(IslandsOf(g) \cup {start}) :
        \A pe \in SimplePaths(g, start, k) : StaysUnder(g, limit, pe)

\* C7: with at least (islands - 1) canoes and every simple path from start
\* under 100, distributeFrom plants on every island reachable from start and
\* returns their number; on the scenario's network with 3 canoes, 4.
C7_AllReachablePlanted ==
    (/\ Distributed
     /\ ret.canoes >= Cardinality(IslandsOf(graph) \cup {ret.start}) - 1
     /\ AllPathsUnder(graph, Threshold, ret.start)) =>
        /\ resourcesDistributed = ReachableFrom(graph, {ret.start})
        /\ ret.value = Cardinality(ReachableFrom(graph, {ret.start}))
        /\ (graph = ScenarioNetwork /\ ret.start = "A" /\ ret.canoes = 3) => ret.value = 4

\* C7's case: the scenario's network with 3 canoes, from A.
C7_Witness ==
    /\ Distributed
    /\ graph = ScenarioNetwork
    /\ ret.start = "A"
    /\ ret.canoes = 3
    /\ ret.value = 4
    /\ resourcesDistributed = {"A", "B", "C", "D"}

\* shareKnowledge has found its queue empty and is about to return.
Returning == pc = "while" /\ queue = <<>>

\* shareKnowledge has set the lastVisit of island n in the call at hand.
Recorded(n) ==
    /\ \E k \in 1..Len(journey) : journey[k] = n
    /\ n \in DOMAIN lastVisit
    /\ lastVisit[n] # NegInfinity

\* C8: shareKnowledge takes the islands off the queue in the order it put
\* them on, and when it returns it has taken every island reachable from
\* start off the queue and recorded a lastVisit for it.
C8_EveryReachableVisited ==
    /\ asked = journey \o queue
    /\ Returning => \A n \in ReachableFrom(graph, {ret.start}) : Recorded(n)

\* C9: on the cycle A <-> B from A with visitInterval 0, while each reading
\* of the clock is later than the one before, the queue is never empty at
\* the while test, and A and B are taken off the queue in turn.
C9_CycleNeverEnds ==
    (pc # "idle" /\ ticking # "no") =>
        /\ pc = "while" => queue # <<>>
        /\ \A k \in 1..Len(journey) :
              journey[k] = (IF k % 2 = 1 THEN "A" ELSE "B")

\* C9's case: with the clock advancing at every reading, A has come off the
\* queue three times and B twice.
C9_Witness ==
    /\ graph = CycleNetwork
    /\ ret.op = "shareKnowledge" /\ ret.start = "A" /\ ret.visitInterval = 0
    /\ ticking = "yes"
    /\ journey = <<"A", "B", "A", "B", "A">>

\* C10: once shareKnowledge has recorded a visit of an island, no step makes
\* the island's lastVisit smaller.
C10_LastVisitNeverDecreases ==
    [][\A n \in DOMAIN lastVisit :
          lastVisit[n] # NegInfinity =>
              /\ n \in DOMAIN lastVisit'
              /\ lastVisit'[n] >= lastVisit[n]]_vars

\* calculatePriority has just returned for an island that was added with a
\* population and that no journey has visited since.
PriorityOfNeverVisited ==
    /\ ret.op = "calculatePriority"
    /\ ret.island \in DOMAIN populations
    /\ ret.island \in DOMAIN lastVisit
    /\ lastVisit[ret.island] = NegInfinity

\* C11: calculatePriority of an island that was added with a population and
\* never visited is the maximal priority and never NaN, whatever the
\* population, 0 included.
C11_NeverVisitedIsMaximal ==
    PriorityOfNeverVisited => ret.value.kind = "Infinity"

\* The orders the edges of the list l can stand in.
Reorderings(l) ==
    {[i \in 1..Len(l) |-> l[f[i]]] : f \in Permutations(1..Len(l))}

RECURSIVE ReorderedOver(_, _)
\* The networks that differ from g in the order of the edge lists of the
\* islands `keys` only.
ReorderedOver(g, keys) ==
    IF keys = {} THEN {g}
    ELSE
        LET n == CHOOSE x \in keys : TRUE IN
        {MapSet(h, n, l) : h \in ReorderedOver(g, keys \ {n}), l \in Reorderings(g[n])}

\* The networks that differ from g in the order of the edge lists only.
Reordered(g) == ReorderedOver(g, DOMAIN g)

\* C12: the number findMaxExperiences(start) returns is the same in whatever
\* order the edges of each island's list stand.
C12_EdgeOrderIrrelevant ==
    Found =>
        \A h \in Reordered(graph) : findMaxExperiences(h, ret.start).ret = ret.value

\* C12's case: a search over three islands that another order of the edges
\* makes explore the paths in another order.
C12_Witness ==
    /\ Found
    /\ ret.value = 3
    /\ \E h \in Reordered(graph) : findMaxExperiences(h, ret.start).s.log # ret.log

\* The lastVisit and the distributed set as the call last made found them.
EntryLastVisit == ret.entry[3]
EntryDistributed == ret.entry[5]

\* C13: on the network as it stands, findMaxExperiences(start) and
\* distributeFrom(start) return what they return in an IslandNetwork just
\* made with the same network, whatever calls were made before (a
\* distributeFrom before a distributeFrom too), and both leave lastVisit as
\* they found it.
C13_TraversalsIndependent ==
    /\ Found =>
          /\ ret.value = findMaxExperiences(graph, ret.start).ret
          /\ lastVisit = EntryLastVisit
    /\ Distributed =>
          /\ ret.value = distributeFrom(graph, {}, TestCanoes, ret.start).ret
          /\ canoesAvailable = TestCanoes
          /\ lastVisit = EntryLastVisit

\* C13's case: a distributeFrom that planted on two islands, made after a
\* distributeFrom that had planted on two, and after a journey that left a
\* lastVisit.
C13_Witness ==
    /\ Distributed
    /\ ret.value = 2
    /\ Cardinality(EntryDistributed) = 2
    /\ \E n \in DOMAIN lastVisit : lastVisit[n] # NegInfinity

\* The islands of a sequence, and whether none comes twice in it.
Range(seq) == {seq[i] : i \in 1..Len(seq)}
NoRepeat(seq) == \A i, j \in 1..Len(seq) : seq[i] = seq[j] => i = j

Closing(i, stack) ==
    CHOOSE j \in i..Len(ret.log) :
        /\ ret.log[j].ev = "return" /\ ret.log[j].stack = stack
        /\ \A k \in i..(j - 1) :
              ~(ret.log[k].ev = "return" /\ ret.log[k].stack = stack)

\* C15: every dfs call returns with visited as it was when the call was
\* entered; a target that was added to visited and turned down for its time
\* is out of visited again when the call that added it returns; and
\* findMaxExperiences ends with visited = {start}.
C15_BacktrackAlways ==
    Found =>
        /\ ret.visited = {ret.start}
        /\ Cardinality(Logged({"enter"})) = Cardinality(Logged({"return"}))
        /\ \A i \in Logged({"enter"}) :
              /\ \E j \in i..Len(ret.log) :
                    ret.log[j].ev = "return" /\ ret.log[j].stack = ret.log[i].stack
              /\ ret.log[Closing(i, ret.log[i].stack)].seen = ret.log[i].seen
        /\ \A i \in Logged({"over"}) :
              /\ ret.log[i].node \in ret.log[i].seen
              /\ \E j \in i..Len(ret.log) :
                    ret.log[j].ev = "return" /\ ret.log[j].stack = ret.log[i].stack
              /\ ret.log[Closing(i, ret.log[i].stack)].seen
                     = ret.log[i].seen \ {ret.log[i].node}

\* C15's case: a search that both descended two edges deep and turned a
\* target down for its time.
C15_Witness ==
    /\ Found
    /\ ret.visited = {ret.start}
    /\ \E i \in Logged({"enter"}) : Len(ret.log[i].stack) = 3
    /\ \E i \in Logged({"over"}) : Len(ret.log[i].stack) >= 2

\* The descents that are open at an entry of the log of distributeFrom: the
\* calls of distributeResource that have not returned, but for the first,
\* which distributeFrom makes without a canoe.
OpenDescents(e) == Len(e.stack) - 1

\* C16: at every point of distributeFrom, canoesAvailable is the number of
\* canoes the call started with less the descents that are open, also right
\* after a call that returned early from an island planted before; and
\* when distributeFrom returns it is the number the call started with.
C16_CanoesMatchOpenDescents ==
    Distributed =>
        /\ \A i \in 1..Len(ret.log) :
              ret.log[i].canoes = ret.canoes - OpenDescents(ret.log[i])
        /\ \A i \in Logged({"again"}) :
              i < Len(ret.log) =>
                  \/ /\ Len(ret.log[i + 1].stack) = Len(ret.log[i].stack) - 1
                     /\ ret.log[i + 1].canoes = ret.log[i].canoes + 1
                  \/ /\ ret.log[i + 1].ev \in {"plant", "again"}
                     /\ Len(ret.log[i + 1].stack) = Len(ret.log[i].stack)
                     /\ ret.log[i + 1].canoes = ret.log[i].canoes
        /\ canoesAvailable = ret.canoes

\* C16's case: with two canoes or more, a call two descents deep returned
\* early from an island planted before.
C16_Witness ==
    /\ Distributed
    /\ ret.canoes >= 2
    /\ canoesAvailable = ret.canoes
    /\ \E i \in Logged({"again"}) :
          /\ OpenDescents(ret.log[i]) = 2
          /\ ret.log[i].canoes = ret.canoes - 2

\* The lastVisit of an island where an island with no recorded visit, added
\* or not, counts as never visited.
lastVisitOrNever(lv, island) == IF island \in DOMAIN lv THEN lv[island] ELSE NegInfinity

\* The target of the edge the for loop of shareKnowledge stands at.
NextNode == neighborsOf(graph, currentIsland)[pos].node

\* C17: in the for loop of shareKnowledge the target of an edge is put on the
\* queue and into visited if and only if it is not in visited, or the time
\* since its lastVisit is more than visitInterval, where the lastVisit of a
\* target without a recorded visit is -Infinity; otherwise queue and
\* visited stay as they are.
C17_EnqueueRule ==
    [][pc = "for" =>
          IF \/ NextNode \notin visited
             \/ ElapsedExceeds(now', lastVisitOrNever(lastVisit, NextNode),
                               ret.visitInterval)
          THEN queue' = Append(queue, NextNode) /\ visited' = visited \cup {NextNode}
          ELSE queue' = queue /\ visited' = visited]_vars

\* C18: on every network, with cycles or without, also when no edge adds to
\* the running time, findMaxExperiences returns from every start; no call is entered on
\* an island that is on the path already, so no more calls are open at
\* once than the network has islands.
C18_CyclesAreSafe ==
    /\ \A start \in StartsOf(graph) :
          LET r == findMaxExperiences(graph, start) IN
          /\ r.ret >= 1
          /\ r.s.stack = <<>>
          /\ r.s.log[Len(r.s.log)].ev = "return"
          /\ r.s.log[Len(r.s.log)].stack = <<start>>
    /\ Found =>
          \A i \in Logged({"enter"}) :
              /\ ret.log[i].node \notin Range(Front(ret.log[i].stack))
              /\ Len(ret.log[i].stack) <= Cardinality(IslandsOf(graph) \cup {ret.start})

\* C18's case: a search on a cycle whose edges add nothing to the running
\* time, in which an island was entered by two different paths.
C18_Witness ==
    /\ Found
    /\ \E i \in Logged({"enter"}) :
          /\ ret.log[i].totalTime <= 0
          /\ Len(ret.log[i].stack) = 3
          /\ \E k \in 1..Len(neighborsOf(graph, ret.log[i].node)) :
                neighborsOf(graph, ret.log[i].node)[k].node = ret.start
    /\ \E i, j \in Logged({"enter"}) :
          /\ ret.log[i].node = ret.log[j].node
          /\ ret.log[i].stack # ret.log[j].stack

RECURSIVE ChainTimes(_, _, _, _)
\* The running times a journey can have after it went along the first k
\* islands of `chain`, by an edge of g from each to the next, with its
\* running time under the limit after every edge.
ChainTimes(g, limit, chain, k) ==
    IF k = 1 THEN {0}
    ELSE {t + EdgeTime(neighborsOf(g, chain[k - 1])[e]) :
            <<t, e>> \in
              {te \in ChainTimes(g, limit, chain, k - 1)
                         \X (1..Len(neighborsOf(g, chain[k - 1]))) :
                  /\ neighborsOf(g, chain[k - 1])[te[2]].node = chain[k]
                  /\ te[1] + EdgeTime(neighborsOf(g, chain[k - 1])[te[2]]) < limit}}

\* C19: during distributeFrom canoesAvailable is never under 0, never more
\* descents are open than the call had canoes at its start, and every
\* island planted was reached from start along a chain of at most that
\* many edges, with the running time under 100 after each of them.
C19_CanoesBoundTheDepth ==
    Distributed =>
        /\ \A i \in 1..Len(ret.log) :
              /\ ret.log[i].canoes >= 0
              /\ OpenDescents(ret.log[i]) <= ret.canoes
        /\ \A i \in Logged({"plant"}) :
              /\ ret.log[i].stack[1] = ret.start
              /\ ret.log[i].stack[Len(ret.log[i].stack)] = ret.log[i].node
              /\ Len(ret.log[i].stack) - 1 <= ret.canoes
              /\ ret.log[i].totalTime \in
                    ChainTimes(graph, Threshold, ret.log[i].stack, Len(ret.log[i].stack))
        /\ resourcesDistributed = {ret.log[i].node : i \in Logged({"plant"})}

\* C19's case: an island was planted as many edges from start as the call
\* had canoes, and there an edge within the limit was not taken because the
\* pool was empty, so that its target got nothing.
C19_Witness ==
    /\ Distributed
    /\ ret.canoes >= 1
    /\ \E i \in Logged({"plant"}) : OpenDescents(ret.log[i]) = ret.canoes
    /\ \E i \in Logged({"skip"}) :
          /\ ret.log[i].canoes = 0
          /\ ret.log[i].totalTime < Threshold
          /\ ret.log[i].node \notin resourcesDistributed

\* The reading the clock gives in this step is no more than visitInterval
\* after any visit that lastVisit records.
WithinIntervalOfEveryVisit ==
    \A n \in DOMAIN lastVisit :
        lastVisit[n] # NegInfinity => now' - lastVisit[n] <= ret.visitInterval

\* C20: while the clock is never read more than visitInterval after a
\* recorded visit (as when it stands still), an island that shareKnowledge
\* has taken off the queue once in this call is not put on the queue again,
\* which bounds the call.
C20_NoSecondQueueing ==
    [][(/\ pc = "for"
        /\ NextNode \in Range(journey)
        /\ WithinIntervalOfEveryVisit) => queue' = queue]_vars

====
